---- MODULE Spec2Model ----
(***************************************************************************)
(* A model of mictoggler.py.                                               *)
(*                                                                         *)
(* MicToggler plays a list of (onoff, duration) steps: run() arms a        *)
(* threading.Timer whose callback __doStep sets the microphone level and   *)
(* arms the next timer; stop() cancels the timer held in self.t, clears    *)
(* currentlyToggling and makes the microphone loud.  Every timer callback  *)
(* runs on a thread of its own and stop() is called from the GUI thread,   *)
(* with no lock anywhere, so __doStep and stop() are modelled statement by *)
(* statement and interleave freely.                                        *)
(*                                                                         *)
(* Threads are numbered: 0 is the GUI (caller) thread, k >= 1 is the       *)
(* thread of the k-th threading.Timer that was created.  Durations are in  *)
(* hundredths of a second.                                                 *)
(***************************************************************************)
EXTENDS Integers, Sequences, FiniteSets, TLC

\* ------------------------------------------------------------------ bounds
MaxLen == 2        \* longest step sequence played
MaxDur == 1        \* longest step duration
MaxRuns == 2       \* calls of run() on the one MicToggler
MaxStops == 2      \* calls of stop() from the GUI thread
MaxFailures == 1   \* effect calls (nircmd) that raise

\* threading.Timer(0.01, self.__doStep) in run()
InitialDelay == 1

VARIABLES
    sequence,            \* self.sequence: <<[isOn, dur], ...>>
    currentlyToggling,   \* self.currentlyToggling
    iStep,               \* self.iStep (0-based, as in the source)
    t,                   \* self.t: the number of the Timer it holds, 0 = not defined
    pc,                  \* pc[th]: where thread th is
    timers,              \* timers[k]: the k-th Timer: its interval, and what armed it
    log,                 \* the effect calls made so far, in order
    lastIdx,             \* lastIdx[k]: the index whose level callback k set, -1 = none yet
    runCalls,            \* history: calls of run()
    stopCalls,           \* history: calls of stop() from the GUI thread
    failures,            \* history: effect calls that raised
    errors,              \* history: the exceptions raised so far
    stopInfo,            \* history: what the GUI thread's latest stop() found and left
    dicts,               \* the parameter dictionaries that exist, by number
    dists,               \* the StepDistribution objects created, by number
    files,               \* the files written by save_distribution, by number
    gui,                 \* TogglerGui: theDistribution, isUnsaved, the enabled controls
    arg,                 \* the input of the constructor under study
    last                 \* history: the latest operation, what it was given and how it ended

togglerVars == <<sequence, currentlyToggling, iStep, t, pc, timers, log, lastIdx,
                 runCalls, stopCalls, failures, errors, stopInfo>>

distVars == <<dicts, dists, files, gui, arg, last>>

vars == <<togglerVars, distVars>>

GUI == 0

Steps == [isOn : BOOLEAN, dur : 0..MaxDur]

RECURSIVE SeqsUpTo(_, _)
SeqsUpTo(S, n) ==
    IF n = 0 THEN {<<>>}
    ELSE LET shorter == SeqsUpTo(S, n - 1)
         IN  shorter \cup {Append(s, x) : s \in {q \in shorter : Len(q) = n - 1}, x \in S}

Sequences == SeqsUpTo(Steps, MaxLen)

Threads == 0..Len(timers)
TimerIds == 1..Len(timers)

\* A wake-up: a Timer that was started and has neither fired nor been cancelled.
Pending(k) == pc[k] = "wait"
NPending == Cardinality({k \in TimerIds : Pending(k)})

\* A callback that is executing (__doStep, and the stop() it may call).
Executing(k) ==
    pc[k] \in {"cancel", "effect", "check", "incr", "arm",
               "stop_cancel", "stop_flag", "stop_loud"}

\* threading.Timer(interval, function): a timer object; after is the index whose
\* level the arming callback had just set (-1 when run() armed it).
NewTimer(interval, after) == [interval |-> interval, after |-> after]

\* Timer.start(): one more thread, waiting for its interval.
Started(p) == [th \in 0..(Len(timers) + 1) |-> IF th \in DOMAIN p THEN p[th] ELSE "wait"]

\* A stop() and a __doStep that never cancel the timer.
Cancel_Forgotten(p, id) == p

\* Timer.cancel(): a waiting timer will never call its function; on a timer that
\* has fired, finished or was cancelled already it does nothing.
Cancel(p, id) == IF p[id] = "wait" THEN [p EXCEPT ![id] = "cancelled"] ELSE p

\* A makeMicLoud that sets the volume to 0, as makeMicSilent does.
makeMicLoud_Silent == FALSE

\* makeMicLoud / makeMicSilent: the level the microphone is set to.
makeMicLoud == TRUE
makeMicSilent == FALSE

\* setMicVol(volBool)
setMicVol(volBool) == IF volBool THEN makeMicLoud ELSE makeMicSilent

\* One entry of the effect log: the level set, the calling thread, and whether
\* the call is __doStep's ("step") or stop()'s ("stop").
Call(level, th, from) == [level |-> level, th |-> th, from |-> from]

\* self.sequence[i] is readable (Python raises IndexError otherwise; i is never negative)
InRange(i) == i < Len(sequence)

\* the condition of __doStep's if
MoreSteps(i, toggling) == i < Len(sequence) /\ toggling

\* the interval __doStep gives the next timer, read after iStep was incremented
NextInterval(i) == sequence[i + 1].dur

\* An exception raised on thread th; for the GUI thread, in which of its stop()
\* calls.
Raised(th, kind) == [th |-> th, kind |-> kind, at |-> IF th = GUI THEN stopCalls ELSE 0]

\* where a thread is once stop() is over: the GUI thread is idle again, a
\* callback is finished
Returned(th) == IF th = GUI THEN "idle" ELSE "done"

\* What the latest stop() of the GUI thread found when it reached self.t.cancel().
NoStop == [defined |-> FALSE, toggling |-> FALSE, armed |-> FALSE, alone |-> FALSE,
           logLen |-> 0, nTimers |-> 0, call |-> 0,
           returned |-> FALSE, retLog |-> 0, retTimers |-> 0]
StopSeen ==
    [defined  |-> t # 0,
     toggling |-> currentlyToggling,
     armed    |-> t # 0 /\ Pending(t),
     alone    |-> /\ \A k \in TimerIds : ~Executing(k)
                 /\ \A k \in TimerIds : Pending(k) => k = t,
     logLen   |-> Len(log),
     nTimers  |-> Len(timers),
     call     |-> stopCalls,
     returned |-> t = 0,
     retLog   |-> Len(log),
     retTimers |-> Len(timers)]

\* ... and what there was when that stop() returned.
StopReturned(newLog) ==
    [stopInfo EXCEPT !.returned = TRUE, !.retLog = Len(newLog), !.retTimers = Len(timers)]

\* TogglerGui.__init__ and InitUI: no distribution, nothing to save, Start, Stop
\* and Save disabled, Generate enabled.
GuiInit ==
    [theDistribution |-> 0, isUnsaved |-> FALSE, startEnabled |-> FALSE,
     stopEnabled |-> FALSE, saveEnabled |-> FALSE, generateEnabled |-> TRUE]

NoArg == [kind |-> "none"]
NoOp == [op |-> "none"]

\* No StepDistribution has been made yet.
NoDistributions ==
    /\ dicts = <<>>
    /\ dists = <<>>
    /\ files = <<>>
    /\ gui = GuiInit
    /\ last = NoOp

\* MicToggler.__init__
Init ==
    /\ NoDistributions
    /\ arg = NoArg
    /\ sequence \in Sequences
    /\ currentlyToggling = FALSE
    /\ iStep = 0
    /\ t = 0
    /\ pc = [th \in {GUI} |-> "idle"]
    /\ timers = <<>>
    /\ log = <<>>
    /\ lastIdx = <<>>
    /\ runCalls = 0
    /\ stopCalls = 0
    /\ failures = 0
    /\ errors = {}
    /\ stopInfo = NoStop

\* ------------------------------------------------------------- MicToggler

\* run(): currentlyToggling = True; iStep = 0; t = Timer(0.01, __doStep); t.start().
\* The timer self.t held before, if any, is neither cancelled nor looked at.
runBody ==
    /\ UNCHANGED distVars
    /\ pc[GUI] = "idle"
    /\ currentlyToggling' = TRUE
    /\ iStep' = 0
    /\ timers' = Append(timers, NewTimer(InitialDelay, -1))
    /\ t' = Len(timers) + 1
    /\ pc' = Started(pc)
    /\ lastIdx' = Append(lastIdx, -1)
    /\ runCalls' = runCalls + 1
    /\ UNCHANGED <<sequence, log, stopCalls, failures, errors, stopInfo>>

\* The first run() on the MicToggler.  TogglerGui.onStart builds a new
\* MicToggler for every start, so this is the only run() the application makes
\* on one object.
run ==
    /\ runCalls = 0
    /\ runBody

\* run() called again on the same MicToggler, which the class allows.
rerun ==
    /\ runCalls > 0
    /\ runCalls < MaxRuns
    /\ runBody

\* The GUI thread calls stop() (onStop, or any caller of the class).
callStop ==
    /\ UNCHANGED distVars
    /\ pc[GUI] = "idle"
    /\ stopCalls < MaxStops
    /\ pc' = [pc EXCEPT ![GUI] = "stop_cancel"]
    /\ stopCalls' = stopCalls + 1
    /\ UNCHANGED <<sequence, currentlyToggling, iStep, t, timers, log, lastIdx,
                   runCalls, failures, errors, stopInfo>>

\* threading.Timer.run: the interval has passed and the timer was not cancelled,
\* so the callback __doStep begins on the timer's thread.
fire(k) ==
    /\ UNCHANGED distVars
    /\ Pending(k)
    /\ pc' = [pc EXCEPT ![k] = "cancel"]
    /\ UNCHANGED <<sequence, currentlyToggling, iStep, t, timers, log, lastIdx,
                   runCalls, stopCalls, failures, errors, stopInfo>>

\* __doStep, first statement: self.t.cancel()
doStepCancel(k) ==
    /\ UNCHANGED distVars
    /\ pc[k] = "cancel"
    /\ pc' = [Cancel(pc, t) EXCEPT ![k] = "effect"]
    /\ UNCHANGED <<sequence, currentlyToggling, iStep, t, timers, log, lastIdx,
                   runCalls, stopCalls, failures, errors, stopInfo>>

\* __doStep: self.setMicVol(self.sequence[self.iStep][0]).  Reading past the end
\* of the list raises IndexError and ends the thread; the effect may itself raise.
doStepEffect(k) ==
    /\ UNCHANGED distVars
    /\ pc[k] = "effect"
    /\ IF ~InRange(iStep)
       THEN /\ pc' = [pc EXCEPT ![k] = "raised"]
            /\ errors' = errors \cup {Raised(k, "IndexError")}
            /\ UNCHANGED <<log, lastIdx, failures>>
       ELSE /\ log' = Append(log, Call(setMicVol(sequence[iStep + 1].isOn), k, "step"))
            /\ lastIdx' = [lastIdx EXCEPT ![k] = iStep]
            /\ \/ /\ pc' = [pc EXCEPT ![k] = "check"]
                  /\ UNCHANGED <<failures, errors>>
               \/ /\ failures < MaxFailures
                  /\ failures' = failures + 1
                  /\ pc' = [pc EXCEPT ![k] = "raised"]
                  /\ errors' = errors \cup {Raised(k, "EffectError")}
    /\ UNCHANGED <<sequence, currentlyToggling, iStep, t, timers,
                   runCalls, stopCalls, stopInfo>>

\* __doStep: if self.iStep < len(self.sequence) and self.currentlyToggling: ... else: self.stop()
doStepCheck(k) ==
    /\ UNCHANGED distVars
    /\ pc[k] = "check"
    /\ pc' = [pc EXCEPT ![k] = IF MoreSteps(iStep, currentlyToggling)
                                 THEN "incr" ELSE "stop_cancel"]
    /\ UNCHANGED <<sequence, currentlyToggling, iStep, t, timers, log, lastIdx,
                   runCalls, stopCalls, failures, errors, stopInfo>>

\* __doStep: self.iStep += 1
doStepIncr(k) ==
    /\ UNCHANGED distVars
    /\ pc[k] = "incr"
    /\ iStep' = iStep + 1
    /\ pc' = [pc EXCEPT ![k] = "arm"]
    /\ UNCHANGED <<sequence, currentlyToggling, t, timers, log, lastIdx,
                   runCalls, stopCalls, failures, errors, stopInfo>>

\* __doStep: self.t = threading.Timer(self.sequence[self.iStep][1], self.__doStep);
\* self.t.start().  Reading past the end of the list raises IndexError.
doStepArm(k) ==
    /\ UNCHANGED distVars
    /\ pc[k] = "arm"
    /\ IF ~InRange(iStep)
       THEN /\ pc' = [pc EXCEPT ![k] = "raised"]
            /\ errors' = errors \cup {Raised(k, "IndexError")}
            /\ UNCHANGED <<timers, t, lastIdx>>
       ELSE /\ timers' = Append(timers, NewTimer(NextInterval(iStep), lastIdx[k]))
            /\ t' = Len(timers) + 1
            /\ pc' = Started([pc EXCEPT ![k] = "done"])
            /\ lastIdx' = Append(lastIdx, -1)
            /\ UNCHANGED errors
    /\ UNCHANGED <<sequence, currentlyToggling, iStep, log,
                   runCalls, stopCalls, failures, stopInfo>>

\* stop(), first statement: self.t.cancel().  self.t is not defined before the
\* first run(): AttributeError.
stopCancel(th) ==
    /\ UNCHANGED distVars
    /\ pc[th] = "stop_cancel"
    /\ IF t = 0
       THEN /\ pc' = [pc EXCEPT ![th] = Returned(th)]
            /\ errors' = errors \cup {Raised(th, "AttributeError")}
       ELSE /\ pc' = [Cancel(pc, t) EXCEPT ![th] = "stop_flag"]
            /\ UNCHANGED errors
    /\ stopInfo' = IF th = GUI THEN StopSeen ELSE stopInfo
    /\ UNCHANGED <<sequence, currentlyToggling, iStep, t, timers, log, lastIdx,
                   runCalls, stopCalls, failures>>

\* stop(): self.currentlyToggling = False
stopFlag(th) ==
    /\ UNCHANGED distVars
    /\ pc[th] = "stop_flag"
    /\ currentlyToggling' = FALSE
    /\ pc' = [pc EXCEPT ![th] = "stop_loud"]
    /\ UNCHANGED <<sequence, iStep, t, timers, log, lastIdx,
                   runCalls, stopCalls, failures, errors, stopInfo>>

\* stop(): self.makeMicLoud(), which may raise; then stop() returns.
stopLoud(th) ==
    /\ UNCHANGED distVars
    /\ pc[th] = "stop_loud"
    /\ log' = Append(log, Call(makeMicLoud, th, "stop"))
    /\ \/ /\ pc' = [pc EXCEPT ![th] = Returned(th)]
          /\ UNCHANGED <<failures, errors>>
       \/ /\ failures < MaxFailures
          /\ failures' = failures + 1
          /\ pc' = [pc EXCEPT ![th] = IF th = GUI THEN "idle" ELSE "raised"]
          /\ errors' = errors \cup {Raised(th, "EffectError")}
    /\ stopInfo' = IF th = GUI THEN StopReturned(log') ELSE stopInfo
    /\ UNCHANGED <<sequence, currentlyToggling, iStep, t, timers, lastIdx,
                   runCalls, stopCalls>>

\* One statement of a timer thread or of a stop() under way.
ThreadStep ==
    \/ \E k \in TimerIds : fire(k)
    \/ \E k \in TimerIds : doStepCancel(k)
    \/ \E k \in TimerIds : doStepEffect(k)
    \/ \E k \in TimerIds : doStepCheck(k)
    \/ \E k \in TimerIds : doStepIncr(k)
    \/ \E k \in TimerIds : doStepArm(k)
    \/ \E th \in Threads : stopCancel(th)
    \/ \E th \in Threads : stopFlag(th)
    \/ \E th \in Threads : stopLoud(th)

\* One playback: run() once, stop() from the GUI thread at any time, any number
\* of times up to MaxStops.
Next ==
    \/ run
    \/ callStop
    \/ ThreadStep

Spec == Init /\ [][Next]_vars

\* run() repeated on the same MicToggler (no stop() from the GUI thread: a
\* callback still calls stop() itself when its check fails).
NextRerun ==
    \/ run
    \/ rerun
    \/ ThreadStep

RerunSpec == Init /\ [][NextRerun]_vars

\* ------------------------------------------------------------------ claims

\* Nothing is left to run: no stop() under way, no wake-up pending, no callback
\* executing.
Quiescent ==
    /\ pc[GUI] = "idle"
    /\ \A k \in TimerIds : ~Pending(k) /\ ~Executing(k)

\* The levels of the effect calls, in order.
Levels == [i \in 1..Len(log) |-> log[i].level]

\* The effect calls made by stop() (the terminal 'on' calls).
TerminalCalls == {i \in 1..Len(log) : log[i].from = "stop"}

\* The effect calls the GUI thread made since its latest stop() began.
GuiCallsSinceStop == {i \in (stopInfo.logLen + 1)..Len(log) : log[i].th = GUI}

\* C1: whenever a started playback has ended, through the end of the sequence
\* or through stop() (no effect call having raised), the most recent effect
\* call was 'on'.
C1_TerminalSafety ==
    (runCalls > 0 /\ failures = 0 /\ Quiescent /\ log # <<>>)
        => log[Len(log)].level = TRUE

\* C2: for a non-empty sequence of length n, run() with every timer left to fire
\* and no stop() makes exactly the effect calls seq[0].isOn, ..., seq[n-1].isOn,
\* true, and none after.
C2_FullRunTrace ==
    (runCalls > 0 /\ stopCalls = 0 /\ failures = 0 /\ Quiescent /\ Len(sequence) > 0)
        => Levels = [i \in 1..(Len(sequence) + 1) |->
                        IF i <= Len(sequence) THEN sequence[i].isOn ELSE TRUE]

\* The latest stop() of the GUI thread reached self.t.cancel() while Running
\* with the wake-up of self.t pending and no callback executing.
StopWhilePending ==
    /\ stopInfo.call > 0
    /\ stopInfo.toggling
    /\ stopInfo.armed
    /\ stopInfo.alone

\* C3: stop() while Running with a wake-up pending and no callback executing
\* cancels the wake-up, makes the state Idle and makes exactly one further
\* effect call, which is 'on'; no wake-up is pending or armed afterwards.  With
\* run(), the first step fired and stop() before the second fires, the calls
\* are exactly seq[0].isOn, true.
C3_StopWhilePending ==
    StopWhilePending =>
        /\ NPending = 0
        /\ \A k \in TimerIds : ~Executing(k)
        /\ Len(timers) = stopInfo.nTimers
        /\ pc[t] = "cancelled"
        /\ ~stopInfo.returned =>
              /\ pc[GUI] \in {"stop_flag", "stop_loud"}
              /\ pc[GUI] = "stop_loud" => ~currentlyToggling
              /\ Len(log) = stopInfo.logLen
        /\ stopInfo.returned =>
              /\ ~currentlyToggling
              /\ Len(log) = stopInfo.logLen + 1
              /\ log[Len(log)] = Call(TRUE, GUI, "stop")
              /\ stopInfo.nTimers = 2 => Levels = <<sequence[1].isOn, TRUE>>

\* C3 witness: run(), the first step fired and armed the second timer, stop()
\* cancelled it and returned.
C3_Witness ==
    /\ StopWhilePending
    /\ pc[GUI] = "idle"
    /\ stopInfo.nTimers = 2
    /\ pc[2] = "cancelled"
    /\ Len(log) = 2

\* C4: once a stop() has returned, no effect is invoked and no wake-up is armed
\* any more, however stop() interleaved with a callback.
C4_NothingAfterStop ==
    (stopInfo.returned /\ stopInfo.defined /\ failures = 0)
        => /\ Len(log) = stopInfo.retLog
           /\ Len(timers) = stopInfo.retTimers

\* C5: with one stop() call racing a callback, the terminal 'on' effect is never
\* invoked twice in a playback.
C5_OneTerminalCall ==
    (stopCalls <= 1 /\ failures = 0) => Cardinality(TerminalCalls) <= 1

\* The latest stop() of the GUI thread reached its first statement while Idle.
StopWhileIdle == stopInfo.call > 0 /\ ~stopInfo.toggling

\* The stop() that was the GUI thread's call-th raised AttributeError.
RaisedAttributeError(call) == [th |-> GUI, kind |-> "AttributeError", at |-> call] \in errors

C7_EndsIdle ==
    (runCalls > 0 /\ stopCalls = 0 /\ failures = 0 /\ Len(sequence) > 0 /\ Quiescent)
        => ~currentlyToggling

\* C8: the wake-up armed after the effect for index i waits sequence[i].duration.
C8_StepTiming ==
    \A k \in TimerIds :
        timers[k].after >= 0 => timers[k].interval = sequence[timers[k].after + 1].dur

\* C9: at most one wake-up is pending at any time.
C9_OnePending == NPending <= 1

\* C10: when the effect has raised in a step, no wake-up is pending and the
\* state is Idle.
C10_CleanupOnFailure ==
    \A k \in TimerIds :
        (pc[k] = "raised" /\ Raised(k, "EffectError") \in errors)
            => NPending = 0 /\ ~currentlyToggling

\* -------------------------------------------------------- StepDistribution
(***************************************************************************)
(* Numbers.  A float is modelled as a whole number of hundredths (One is   *)
(* 1.0).  Values a user types are whole tenths; values the program         *)
(* computes (Gaussian samples, sums, quotients) use every digit.  Python   *)
(* 2's str() of a float keeps 12 significant digits, fewer than a float    *)
(* holds: here it keeps the tenths, and float() of that text gives the     *)
(* tenths back.                                                            *)
(***************************************************************************)
One == 100
StrUlps == 10

MaxSteps == 3      \* largest nSteps of a parameter record

Max(a, b) == IF a >= b THEN a ELSE b
Min(a, b) == IF a <= b THEN a ELSE b

\* round(num / den) for num >= 0, den > 0: Python 2 rounds a half away from zero
Round(num, den) == (2 * num + den) \div (2 * den)

\* x / y in floating point, y # 0
FDiv(x, y) == Round(x * One, y)

\* int(x) for x >= 0
IntPart(x) == x \div One

ParamFields == {"nSteps", "fracOn", "avgDurOn", "stdDurOn", "minDurOn", "maxDurOn",
                "avgDurOff", "stdDurOff", "minDurOff", "maxDurOff"}
StatFields == {"fracStepsOn", "fracTimeOn", "timeTotal"}
ExpectedFields == ParamFields \cup StatFields

\* The values the parameter records are made of.
FracValues == {0, 30, 50, 100}
AvgValues == {-100, 200}
StdValues == {0, 30}
BoundPairs == {<<0, 0>>, <<100, 300>>, <<-200, 250>>, <<300, 100>>}

\* A parameter dictionary as a caller (getDistParams) builds it.
ParamRecord(n, frac, avgOn, stdOn, bOn, avgOff, stdOff, bOff) ==
    [f \in ParamFields |->
        CASE f = "nSteps"    -> n * One
          [] f = "fracOn"    -> frac
          [] f = "avgDurOn"  -> avgOn
          [] f = "stdDurOn"  -> stdOn
          [] f = "minDurOn"  -> bOn[1]
          [] f = "maxDurOn"  -> bOn[2]
          [] f = "avgDurOff" -> avgOff
          [] f = "stdDurOff" -> stdOff
          [] f = "minDurOff" -> bOff[1]
          [] f = "maxDurOff" -> bOff[2]]

ParamRecords ==
    {ParamRecord(n, frac, avgOn, stdOn, bOn, avgOff, stdOff, bOff) :
        n \in 0..MaxSteps, frac \in FracValues,
        avgOn \in AvgValues, stdOn \in StdValues, bOn \in BoundPairs,
        avgOff \in AvgValues, stdOff \in StdValues, bOff \in BoundPairs}

\* A constructor that leaves the four bounds as given.
Coerced_AsGiven(d) == d

\* __init__, lines 57-60: the four bounds are raised to 0.0
Coerced(d) ==
    [d EXCEPT !["minDurOn"] = Max(@, 0), !["maxDurOn"] = Max(@, 0),
              !["minDurOff"] = Max(@, 0), !["maxDurOff"] = Max(@, 0)]

\* random.gauss(avgDur, stdDur) is avgDur + stdDur * z for a standard normal z:
\* the z tried, in tenths
Deviations == {-40, 11, 40}
Gauss(avgDur, stdDur) == {avgDur + (stdDur * z) \div 10 : z \in Deviations}

\* A clamp in the other order: high, then low.
Clamp_HighThenLow(x, minDur, maxDur) == Max(minDur, Min(x, maxDur))

\* A clamp that forgets the upper bound.
Clamp_NoUpper(x, minDur, maxDur) == Max(minDur, x)

\* bounded_gaussian_list: min(max(minDur, x), maxDur)
Clamp(x, minDur, maxDur) == Min(Max(minDur, x), maxDur)

\* bounded_gaussian_list(nElem, ...): the lists it can return
BoundedGaussianLists(nElem, avgDur, stdDur, minDur, maxDur) ==
    {[i \in 1..nElem |-> Clamp(x[i], minDur, maxDur)] :
        x \in [1..nElem -> Gauss(avgDur, stdDur)]}

\* A count of 'on' steps that truncates instead of rounding.
NOn_Truncated(d) == (d["fracOn"] * d["nSteps"]) \div (One * One)

\* __set_seq: nOn = round(fracOn * nSteps), as int(nOn)
NOn(d) == Round(d["fracOn"] * d["nSteps"], One * One)

\* __set_seq: nOff = nSteps - nOn, as int(nOff)
NOff(d) == IntPart(d["nSteps"] - NOn(d) * One)

Tagged(onoff, durs) == [i \in 1..Len(durs) |-> [isOn |-> onoff, dur |-> durs[i]]]

\* random.shuffle(steps): the orders it can leave the list in
Shuffles(steps) ==
    {[i \in 1..Len(steps) |-> steps[perm[i]]] :
        perm \in {f \in [1..Len(steps) -> 1..Len(steps)] :
                     \A i, j \in 1..Len(steps) : i # j => f[i] # f[j]}}

\* __set_seq: the step lists it can make from the (coerced) parameters d
StepLists(d) ==
    UNION {Shuffles(Tagged(TRUE, on) \o Tagged(FALSE, off)) :
        on \in BoundedGaussianLists(NOn(d), d["avgDurOn"], d["stdDurOn"],
                                    d["minDurOn"], d["maxDurOn"]),
        off \in BoundedGaussianLists(NOff(d), d["avgDurOff"], d["stdDurOff"],
                                     d["minDurOff"], d["maxDurOff"])}

RECURSIVE SumDur(_, _)
\* sum of the durations of the steps of stepList that are on, or of all of them
SumDur(stepList, onOnly) ==
    IF stepList = <<>> THEN 0
    ELSE (IF onOnly /\ ~stepList[1].isOn THEN 0 ELSE stepList[1].dur)
         + SumDur(Tail(stepList), onOnly)

CountOn(stepList) == Cardinality({i \in 1..Len(stepList) : stepList[i].isOn})

\* A __distribution_details whose division fails on an empty list only.
DetailsRaises_OnlyEmpty(stepList) == Len(stepList) = 0

\* __distribution_details raises ZeroDivisionError: / len(self.stepList), / timeTotal
DetailsRaises(stepList) == Len(stepList) = 0 \/ SumDur(stepList, FALSE) = 0

\* __distribution_details: (fracStepsOn, fracTimeOn, timeTotal)
DistributionDetails(stepList) ==
    [f \in StatFields |->
        CASE f = "fracStepsOn" -> FDiv(CountOn(stepList) * One, Len(stepList) * One)
          [] f = "timeTotal"   -> SumDur(stepList, FALSE)
          [] f = "fracTimeOn"  -> FDiv(SumDur(stepList, TRUE), SumDur(stepList, FALSE))]

\* A __set_seq that drops the statistics.
WithStats_Dropped(d, stats) == d

\* the dictionary d with the three statistics stored in it
WithStats(d, stats) ==
    [f \in (DOMAIN d) \cup StatFields |-> IF f \in StatFields THEN stats[f] ELSE d[f]]

\* How an operation ended: what it was, its error, the dictionary and the file
\* it used, the step list it built, the distribution it made, and the
\* dictionaries, distributions and GUI there were before it.
Ended(op, error, dict, file, steps, dist) ==
    [op |-> op, error |-> error, dict |-> dict, file |-> file, steps |-> steps,
     dist |-> dist, prevDicts |-> dicts, prevDists |-> dists, prevGui |-> gui]

\* A constructor that leaves an object behind even when it raised.
DistsAfter_Always(error, newDist) == Append(dists, newDist)

\* x = StepDistribution(...): an exception leaves the constructor and nothing
\* is bound; otherwise the new object joins the distributions there are
DistsAfter(error, newDist) == IF error = "none" THEN Append(dists, newDist) ELSE dists

\* StepDistribution(paramsOrFile) with the dictionary number d: self.params is
\* that dictionary itself; the bounds are raised to 0, __set_seq builds the list
\* and stores the statistics in the dictionary.  A ZeroDivisionError leaves
\* __distribution_details before any statistic is stored.
constructFromDict(allDicts, d) ==
    \E stepList \in StepLists(Coerced(allDicts[d])) :
        LET error == IF DetailsRaises(stepList) THEN "ZeroDivisionError" ELSE "none"
            made == DistsAfter(error, [params |-> d, stepList |-> stepList])
        IN  /\ dicts' = [allDicts EXCEPT
                           ![d] = IF error = "none"
                                  THEN WithStats(Coerced(@), DistributionDetails(stepList))
                                  ELSE Coerced(@)]
            /\ dists' = made
            /\ last' = Ended("generate", error, d, 0, stepList,
                             IF error = "none" THEN Len(made) ELSE 0)

\* No MicToggler is playing.
NoPlayback ==
    /\ sequence = <<>>
    /\ currentlyToggling = FALSE
    /\ iStep = 0
    /\ t = 0
    /\ pc = [th \in {GUI} |-> "idle"]
    /\ timers = <<>>
    /\ log = <<>>
    /\ lastIdx = <<>>
    /\ runCalls = 0
    /\ stopCalls = 0
    /\ failures = 0
    /\ errors = {}
    /\ stopInfo = NoStop

\* ---- generation alone: one StepDistribution(params) for each parameter record
GenInit ==
    /\ NoPlayback
    /\ NoDistributions
    /\ arg \in {[kind |-> "params", params |-> p] : p \in ParamRecords}

\* StepDistribution(params) on a new dictionary holding arg's values
generate ==
    /\ last.op = "none"
    /\ arg.kind = "params"
    /\ constructFromDict(Append(dicts, arg.params), Len(dicts) + 1)
    /\ UNCHANGED <<files, gui, arg>>
    /\ UNCHANGED togglerVars

GenNext == generate

GenSpec == GenInit /\ [][GenNext]_vars

\* ------------------------------------------------------------- files
(***************************************************************************)
(* A distribution file: the header's name=value lines, whether the         *)
(* STEPLIST line is there, and the lines after it.  The text of a value is *)
(* a number with the digits str() keeps, something that is no number, or   *)
(* nothing at all.                                                         *)
(***************************************************************************)
MaxLines == 2      \* most lines after the STEPLIST marker in a hand-made file

Absent == [kind |-> "absent", tenths |-> 0]
Junk == [kind |-> "junk", tenths |-> 0]

\* str(x) of a float: the digits beyond the ones str keeps are rounded away
Str(x) == [kind |-> "num", tenths |-> IF x < 0 THEN 0 - Round(0 - x, StrUlps)
                                       ELSE Round(x, StrUlps)]

\* float(text), and the value exec gives a numeric literal
Float(text) == text.tenths * StrUlps

\* str(step[0])
BoolStr(b) == IF b THEN "True" ELSE "False"

Line(onoff, hasComma, dur) == [onoff |-> onoff, hasComma |-> hasComma, dur |-> dur]

File(marker, header, body) == [marker |-> marker, header |-> header, body |-> body]

\* write_var for the thirteen fields of the dictionary d
SavedHeader(d) == [f \in ExpectedFields |-> IF f \in DOMAIN d THEN Str(d[f]) ELSE Absent]

\* save_distribution: the text it writes for the distribution dist
SavedFile(dist) ==
    File(TRUE, SavedHeader(dicts[dist.params]),
         [i \in 1..Len(dist.stepList) |->
             Line(BoolStr(dist.stepList[i].isOn), TRUE, Str(dist.stepList[i].dur))])

\* load_file, line 85-86: vals = line.strip().split(','); vals[1]; float(vals[1])
LineError(line) ==
    IF ~line.hasComma THEN "IndexError"
    ELSE IF line.dur.kind # "num" THEN "ValueError"
    ELSE "none"

\* load_file, line 86: tup = (vals[0]=='True', float(vals[1]))
ParsedStep(line) == [isOn |-> line.onoff = "True", dur |-> Float(line.dur)]

\* A check of the generation parameters only.
MissingField_ParamsOnly(params) == \E f \in ParamFields : f \notin DOMAIN params

\* load_file, lines 95-97: for f in expectedFields: if f not in self.params
MissingField(params) == \E f \in ExpectedFields : f \notin DOMAIN params

\* load_file(filepath) on the text file: the error it raises, self.params and
\* self.stepList.  Lines before the marker with '=' are executed by read_var,
\* lines after it are parsed as steps; the fields are checked last.
LoadFile(file) ==
    LET lines == IF file.marker THEN file.body ELSE <<>>
        bad == {i \in DOMAIN lines : LineError(lines[i]) # "none"}
        first == CHOOSE i \in bad : \A j \in bad : i <= j
        params == [f \in {g \in ExpectedFields : file.header[g].kind = "num"} |->
                      Float(file.header[f])]
    IN  [error |-> IF \E f \in ExpectedFields : file.header[f].kind = "junk"
                   THEN "NameError"
                   ELSE IF bad # {} THEN LineError(lines[first])
                   ELSE IF MissingField(params) THEN "IOError"
                   ELSE "none",
         params |-> params,
         stepList |-> [i \in DOMAIN lines |-> ParsedStep(lines[i])]]

\* StepDistribution(filepath) with the file number i: a new dictionary and a
\* new list, kept only if load_file returned
constructFromFile(i) ==
    LET r == LoadFile(files[i])
        ok == r.error = "none"
        made == DistsAfter(r.error, [params |-> Len(dicts) + 1, stepList |-> r.stepList])
    IN  /\ dicts' = IF ok THEN Append(dicts, r.params) ELSE dicts
        /\ dists' = made
        /\ last' = Ended("load", r.error, IF ok THEN Len(dicts) + 1 ELSE 0, i,
                         IF ok THEN r.stepList ELSE <<>>, IF ok THEN Len(made) ELSE 0)

\* ---- hand-made files
\* the values of a file written for the two steps (True, 2.0), (False, 2.0)
BaseValues ==
    [f \in ExpectedFields |->
        CASE f = "nSteps" -> 2 * One
          [] f \in {"fracOn", "fracStepsOn", "fracTimeOn"} -> 50
          [] f \in {"avgDurOn", "avgDurOff"} -> 200
          [] f \in {"stdDurOn", "stdDurOff"} -> 0
          [] f \in {"minDurOn", "minDurOff"} -> 100
          [] f \in {"maxDurOn", "maxDurOff"} -> 300
          [] f = "timeTotal" -> 400]

HeaderWithout(missing) ==
    [f \in ExpectedFields |-> IF f \in missing THEN Absent ELSE Str(BaseValues[f])]

GoodBody == <<Line("True", TRUE, Str(200)), Line("False", TRUE, Str(200))>>

\* the lines tried after the marker: two well-formed ones, a zero duration,
\* 'true' in the wrong case, no comma, and a duration that is no number
BodyLines ==
    {Line("True", TRUE, Str(200)), Line("False", TRUE, Str(100)),
     Line("False", TRUE, Str(0)), Line("true", TRUE, Str(200)),
     Line("True", FALSE, Absent), Line("True", TRUE, Junk)}

Bodies == UNION {[1..n -> BodyLines] : n \in 0..MaxLines}

\* every subset of the thirteen fields missing, before a good, an empty and a
\* malformed body; every body after a complete header, with and without the
\* marker; a header value that is no expression
CraftedFiles ==
    {File(TRUE, HeaderWithout(missing), body) :
        missing \in SUBSET ExpectedFields,
        body \in {GoodBody, <<>>, <<Line("True", FALSE, Absent)>>}}
    \cup {File(m, HeaderWithout({}), body) : m \in BOOLEAN, body \in Bodies}
    \cup {File(TRUE, [HeaderWithout({}) EXCEPT !["nSteps"] = Junk], GoodBody)}

\* ---- loading alone: one StepDistribution(filepath) for each hand-made file
LoadInit ==
    /\ NoPlayback
    /\ dicts = <<>> /\ dists = <<>> /\ gui = GuiInit /\ last = NoOp /\ arg = NoArg
    /\ files \in {<<file>> : file \in CraftedFiles}

\* StepDistribution(filepath)
load ==
    /\ last.op = "none"
    /\ \E i \in DOMAIN files : constructFromFile(i)
    /\ UNCHANGED <<files, gui, arg>>
    /\ UNCHANGED togglerVars

LoadNext == load

LoadSpec == LoadInit /\ [][LoadNext]_vars

\* ---- construction alone, by either path: StepDistribution(params) for each
\* parameter record and StepDistribution(filepath) for each hand-made file
ConstructInit == GenInit \/ LoadInit

ConstructNext == generate \/ load

ConstructSpec == ConstructInit /\ [][ConstructNext]_vars

\* ------------------------------------------- generate, save and load
MaxDists == 3      \* most StepDistribution objects made in one behaviour
MaxFiles == 3      \* most files there are, the hand-made one included

\* two steps, one on and one off; the on step's duration is sampled
TwoSteps == ParamRecord(2, 50, 200, 30, <<100, 300>>, 200, 0, <<100, 300>>)

\* one step whose duration can only be 0
ZeroStep == ParamRecord(1, 100, 200, 0, <<0, 0>>, 200, 0, <<0, 0>>)

\* a file as saved for (True, 2.0), (False, 2.0); one whose header does not
\* fit its one step; one without timeTotal
ApiFiles ==
    {File(TRUE, HeaderWithout({}), GoodBody),
     File(TRUE, HeaderWithout({}), <<Line("True", TRUE, Str(200))>>),
     File(TRUE, HeaderWithout({"timeTotal"}), GoodBody)}

ApiInit ==
    /\ NoPlayback
    /\ dicts = <<>> /\ dists = <<>> /\ gui = GuiInit /\ last = NoOp
    /\ arg = [kind |-> "params", params |-> TwoSteps]
    /\ files \in {<<file>> : file \in ApiFiles}

\* StepDistribution(params) with a dictionary made for the call
generateNew ==
    /\ Len(dists) < MaxDists
    /\ constructFromDict(Append(dicts, arg.params), Len(dicts) + 1)
    /\ UNCHANGED <<files, gui, arg>>
    /\ UNCHANGED togglerVars

\* StepDistribution(params) with a dictionary that was passed before, or with
\* the params of a distribution there is
generateAgain ==
    /\ Len(dists) < MaxDists
    /\ \E d \in DOMAIN dicts : constructFromDict(dicts, d)
    /\ UNCHANGED <<files, gui, arg>>
    /\ UNCHANGED togglerVars

\* dist.save_distribution(): a new file, named after the time and nInstances
saveDistribution(k) ==
    /\ files' = Append(files, SavedFile(dists[k]))
    /\ last' = Ended("save", "none", dists[k].params, Len(files) + 1,
                     dists[k].stepList, k)

save ==
    /\ Len(files) < MaxFiles
    /\ \E k \in DOMAIN dists : saveDistribution(k)
    /\ UNCHANGED <<dicts, dists, gui, arg>>
    /\ UNCHANGED togglerVars

\* StepDistribution(filepath) with any file there is
loadAny ==
    /\ Len(dists) < MaxDists
    /\ \E i \in DOMAIN files : constructFromFile(i)
    /\ UNCHANGED <<files, gui, arg>>
    /\ UNCHANGED togglerVars

ApiNext == generateNew \/ generateAgain \/ save \/ loadAny

ApiSpec == ApiInit /\ [][ApiNext]_vars

\* ---------------------------------------------------------- TogglerGui
(***************************************************************************)
(* The handlers of the Generate button and of the Load and Save menu       *)
(* items.  arg holds what the parameter controls show, gui.theDistribution *)
(* is the number of the distribution held (0 for the initial []).  The     *)
(* dialogs are answered so that the handler goes on: a cancelled dialog    *)
(* returns at once and changes nothing.                                    *)
(***************************************************************************)
\* a saved file, one without timeTotal, one with a step line without comma,
\* and a complete one whose avgDurOn is 0
GuiFiles ==
    {File(TRUE, HeaderWithout({}), GoodBody),
     File(TRUE, HeaderWithout({"timeTotal"}), GoodBody),
     File(TRUE, HeaderWithout({}), <<Line("True", FALSE, Absent)>>),
     File(TRUE, [HeaderWithout({}) EXCEPT !["avgDurOn"] = Str(0)], GoodBody)}

GuiSpecInit ==
    /\ NoPlayback
    /\ dicts = <<>> /\ dists = <<>> /\ gui = GuiInit /\ last = NoOp
    /\ arg \in {[kind |-> "params", params |-> p] : p \in {TwoSteps, ZeroStep}}
    /\ files \in {<<file>> : file \in GuiFiles}

\* onGenerate: the button is disabled, StepDistribution(self.getDistParams())
\* is made from a new dictionary; if the constructor raises, the handler is
\* left there, with the button still disabled
onGenerate ==
    /\ gui.generateEnabled
    /\ Len(dists) < MaxDists
    /\ constructFromDict(Append(dicts, arg.params), Len(dicts) + 1)
    /\ gui' = IF last'.error = "none"
              THEN [gui EXCEPT !.theDistribution = last'.dist, !.isUnsaved = TRUE,
                               !.saveEnabled = TRUE, !.startEnabled = TRUE,
                               !.generateEnabled = TRUE]
              ELSE [gui EXCEPT !.generateEnabled = FALSE]
    /\ UNCHANGED <<files, arg>>
    /\ UNCHANGED togglerVars

\* setInput raises ZeroDivisionError at params['stdDurOn'] / params['avgDurOn']
\* or at params['stdDurOff'] / params['avgDurOff']
SetInputRaises(params) == params["avgDurOn"] = 0 \/ params["avgDurOff"] = 0

\* setInput(params): the controls afterwards; the first four are set before
\* a division can raise
SetInput(shown, params) ==
    [f \in ParamFields |->
        IF SetInputRaises(params)
           /\ f \notin {"nSteps", "fracOn", "avgDurOn", "avgDurOff"}
        THEN shown[f]
        ELSE params[f]]

\* onLoad with a file chosen in the dialog: inside try/except the distribution
\* is constructed and assigned and the statistics and controls are set; after
\* it, whatever happened, the unsaved flag is cleared, Save is disabled and
\* Start is enabled
onLoad ==
    /\ Len(dists) < MaxDists
    /\ \E i \in DOMAIN files : constructFromFile(i)
    /\ gui' = [gui EXCEPT !.theDistribution = IF last'.error = "none" THEN last'.dist ELSE @,
                          !.isUnsaved = FALSE, !.saveEnabled = FALSE,
                          !.startEnabled = TRUE]
    /\ arg' = IF last'.error = "none"
              THEN [arg EXCEPT !.params = SetInput(@, dicts'[last'.dict])]
              ELSE arg
    /\ UNCHANGED files
    /\ UNCHANGED togglerVars

\* onSave, reachable while the Save item is enabled
onSave ==
    /\ gui.saveEnabled
    /\ Len(files) < MaxFiles
    /\ saveDistribution(gui.theDistribution)
    /\ gui' = [gui EXCEPT !.isUnsaved = FALSE]
    /\ UNCHANGED <<dicts, dists, arg>>
    /\ UNCHANGED togglerVars

GuiNext == onGenerate \/ onLoad \/ onSave

GuiSpec == GuiSpecInit /\ [][GuiNext]_vars

\* ---- all five events.  The Start and Stop handlers run on the GUI thread
\* like the others; the timer callbacks they set off touch no field of
\* TogglerGui and are left to Spec.

\* the GUI as started, the controls showing one of two parameter records,
\* with a saved file and one without timeTotal to choose from
EventInit ==
    /\ NoPlayback
    /\ dicts = <<>> /\ dists = <<>> /\ gui = GuiInit /\ last = NoOp
    /\ arg \in {[kind |-> "params", params |-> p] : p \in {TwoSteps, ZeroStep}}
    /\ files \in {<<File(TRUE, HeaderWithout(missing), GoodBody)>> :
                     missing \in {{}, {"timeTotal"}}}

\* onStart, reachable while the Start button is enabled: MicToggler(
\* self.theDistribution.stepList, ...) raises AttributeError while
\* theDistribution is the initial [], and the handler is left there; otherwise
\* a new MicToggler is made, Start is disabled, Stop is enabled and run()
\* arms the first timer
onStart ==
    /\ gui.startEnabled
    /\ runCalls < MaxRuns
    /\ IF gui.theDistribution = 0
       THEN /\ last' = Ended("start", "AttributeError", 0, 0, <<>>, 0)
            /\ UNCHANGED <<gui, togglerVars>>
       ELSE /\ last' = Ended("start", "none", dists[gui.theDistribution].params, 0,
                             dists[gui.theDistribution].stepList, gui.theDistribution)
            /\ gui' = [gui EXCEPT !.startEnabled = FALSE, !.stopEnabled = TRUE]
            /\ sequence' = dists[gui.theDistribution].stepList
            /\ currentlyToggling' = TRUE
            /\ iStep' = 0
            /\ timers' = Append(timers, NewTimer(InitialDelay, -1))
            /\ t' = Len(timers) + 1
            /\ pc' = Started(pc)
            /\ lastIdx' = Append(lastIdx, -1)
            /\ runCalls' = runCalls + 1
            /\ UNCHANGED <<log, stopCalls, failures, errors, stopInfo>>
    /\ UNCHANGED <<dicts, dists, files, arg>>

\* onStop, reachable while the Stop button is enabled: self.theToggler.stop()
\* cancels the timer, clears the flag and calls makeMicLoud; if that raises,
\* the handler is left before the buttons change
onStop ==
    /\ gui.stopEnabled
    /\ stopCalls < MaxStops
    /\ stopCalls' = stopCalls + 1
    /\ pc' = Cancel(pc, t)
    /\ currentlyToggling' = FALSE
    /\ log' = Append(log, Call(makeMicLoud, GUI, "stop"))
    /\ \/ /\ gui' = [gui EXCEPT !.startEnabled = TRUE, !.stopEnabled = FALSE]
          /\ last' = Ended("stop", "none", 0, 0, <<>>, gui.theDistribution)
          /\ UNCHANGED <<failures, errors>>
       \/ /\ failures < MaxFailures
          /\ failures' = failures + 1
          /\ errors' = errors \cup {Raised(GUI, "EffectError")}
          /\ last' = Ended("stop", "EffectError", 0, 0, <<>>, gui.theDistribution)
          /\ UNCHANGED gui
    /\ UNCHANGED <<sequence, iStep, t, timers, lastIdx, runCalls, stopInfo>>
    /\ UNCHANGED <<dicts, dists, files, arg>>

EventNext == onGenerate \/ onLoad \/ onSave \/ onStart \/ onStop

EventSpec == EventInit /\ [][EventNext]_vars

\* ------------------------------------------------ claims about generation
\* the parameter record the latest generation was given
Given == arg.params
\* the dictionary the latest generation worked on, as it is now
Stored == dicts[last.dict]
Generated == last.op = "generate"
OnDurs(stepList) == {stepList[i].dur : i \in {j \in 1..Len(stepList) : stepList[j].isOn}}
OffDurs(stepList) == {stepList[i].dur : i \in {j \in 1..Len(stepList) : ~stepList[j].isOn}}

\* C11: for a parameter record with nSteps a positive integer and fracOn in
\* [0,1], the step list that generation builds has exactly nSteps steps, of
\* which exactly round(fracOn*nSteps) are on and the rest are off, in whatever
\* order the shuffle left them; a distribution that was made holds that list.
C11_StepCounts ==
    (Generated /\ Given["nSteps"] >= One /\ Given["fracOn"] \in 0..One) =>
        LET n == Given["nSteps"] \div One
            k == Round(Given["fracOn"] * Given["nSteps"], One * One)
        IN  /\ Len(last.steps) = n
            /\ CountOn(last.steps) = k
            /\ Cardinality({i \in 1..Len(last.steps) : ~last.steps[i].isOn}) = n - k
            /\ last.error = "none" => dists[last.dist].stepList = last.steps

\* three steps at fracOn 0.5 gave two on steps, and the shuffle put the off step first
C11_Witness ==
    /\ Generated
    /\ last.error = "none"
    /\ Given["nSteps"] = 3 * One
    /\ Given["fracOn"] = 50
    /\ CountOn(last.steps) = 2
    /\ ~last.steps[1].isOn

\* C12 as stated: every generated step's duration lies in [minDurOn, maxDurOn]
\* if the step is on and in [minDurOff, maxDurOff] if it is off, with the
\* bounds as stored after the >= 0 clamp.
C12_DurationsInBounds ==
    Generated =>
        /\ \A x \in OnDurs(last.steps) : Stored["minDurOn"] <= x /\ x <= Stored["maxDurOn"]
        /\ \A x \in OffDurs(last.steps) : Stored["minDurOff"] <= x /\ x <= Stored["maxDurOff"]

WithinOrMax(x, minDur, maxDur) ==
    IF minDur <= maxDur THEN minDur <= x /\ x <= maxDur ELSE x = maxDur

\* C12, amended: every generated step's duration lies in its category's stored
\* [min, max] when min <= max; when the stored min exceeds the stored max the
\* duration is the stored max.
C12_DurationsClamped ==
    Generated =>
        /\ \A x \in OnDurs(last.steps) :
              WithinOrMax(x, Stored["minDurOn"], Stored["maxDurOn"])
        /\ \A x \in OffDurs(last.steps) :
              WithinOrMax(x, Stored["minDurOff"], Stored["maxDurOff"])

\* a sample above the maximum became the maximum, one below the minimum became
\* the minimum, and one in between was kept
C12_Witness ==
    /\ Generated
    /\ last.error = "none"
    /\ Stored["minDurOn"] = 100
    /\ Stored["maxDurOn"] = 300
    /\ OnDurs(last.steps) = {100, 233, 300}

\* C16: generation from nSteps = 0, or whose realized total duration is 0,
\* ends in a ZeroDivisionError, makes no distribution and stores no summary
\* statistic; no distribution there is has such a step list.
C16_DegenerateFails ==
    /\ (Generated /\ (Given["nSteps"] = 0 \/ SumDur(last.steps, FALSE) = 0)) =>
          /\ last.error = "ZeroDivisionError"
          /\ last.dist = 0
          /\ dists = last.prevDists
          /\ (DOMAIN Stored) \cap StatFields = {}
    /\ \A i \in DOMAIN dists :
          Len(dists[i].stepList) > 0 /\ SumDur(dists[i].stepList, FALSE) # 0

\* steps were made, all of duration 0
C16_Witness ==
    /\ Generated
    /\ Len(last.steps) = 2
    /\ SumDur(last.steps, FALSE) = 0
    /\ last.error = "ZeroDivisionError"
    /\ dists = <<>>

\* --------------------------------------------------- claims about loading
Loaded == last.op = "load"
\* the file the latest load read
Read == files[last.file]
Degenerate(stepList) == Len(stepList) = 0 \/ SumDur(stepList, FALSE) = 0

\* C14: load raises an error whenever any of the thirteen expected fields is
\* absent from the header, for every subset of missing fields, and makes no
\* distribution.
C14_MissingFieldFails ==
    (Loaded /\ \E f \in ExpectedFields : Read.header[f].kind = "absent") =>
        /\ last.error # "none"
        /\ last.dist = 0
        /\ dists = last.prevDists

\* only timeTotal is missing, before a well-formed body
C14_Witness ==
    /\ Loaded
    /\ {f \in ExpectedFields : Read.header[f].kind = "absent"} = {"timeTotal"}
    /\ Read.body = GoodBody
    /\ last.error = "IOError"
    /\ dists = <<>>

Canonical(line) ==
    line.onoff \in {"True", "False"} /\ line.hasComma /\ line.dur.kind = "num"

\* C15 as stated: load raises an error for every line after the marker that is
\* not exactly '<True or False>,<real>': a first token in the wrong case, a
\* missing comma or a non-numeric duration is never read as a step.
C15_BadLinesRejected ==
    (Loaded /\ Read.marker /\ \E i \in DOMAIN Read.body : ~Canonical(Read.body[i])) =>
        last.error # "none"

\* C17 as stated: load rejects a step list with zero steps or zero total
\* duration as generate does, so no distribution has such a step list.
C17_SamePolicy ==
    /\ (Loaded /\ last.error = "none") => ~Degenerate(last.steps)
    /\ \A i \in DOMAIN dists : ~Degenerate(dists[i].stepList)

\* ------------------------------------- claims about generate, save, load
Saved == last.op = "save"
\* the thirteen values of the distribution dist
Values(dist) == [f \in ExpectedFields |-> dicts[dist.params][f]]
\* the file is the text save_distribution writes for dist
WrittenFor(file, dist) == file = SavedFile(dist)

\* C13 as stated: loading the file that save_distribution(d) writes gives a
\* distribution with d's thirteen values and d's step list, element by
\* element; and saving a distribution loaded from such a file writes the
\* file's text again.
C13_RoundTrip ==
    /\ (Loaded /\ last.error = "none") =>
          \A k \in DOMAIN last.prevDists :
              WrittenFor(Read, dists[k]) =>
                  /\ Values(dists[last.dist]) = Values(dists[k])
                  /\ dists[last.dist].stepList = dists[k].stepList
    /\ Saved =>
          \A j \in DOMAIN files, k \in DOMAIN dists :
              (/\ j # last.file
               /\ WrittenFor(files[j], dists[k])
               /\ LoadFile(files[j]).error = "none"
               /\ LoadFile(files[j]).params = Values(dists[last.dist])
               /\ LoadFile(files[j]).stepList = dists[last.dist].stepList)
              => files[last.file] = files[j]

\* C18 as stated: in every distribution there is, the stored statistics are
\* those of its own step list, fracStepsOn = (on steps)/(steps), timeTotal =
\* sum of the durations, fracTimeOn = (sum of the on durations)/timeTotal,
\* and nSteps is the length of the step list.
C18_StatsOfOwnList ==
    \A k \in DOMAIN dists :
        LET d == dicts[dists[k].params]
            l == dists[k].stepList
        IN  /\ d["nSteps"] = Len(l) * One
            /\ Degenerate(l) \/
                  /\ d["fracStepsOn"] = FDiv(CountOn(l) * One, Len(l) * One)
                  /\ d["timeTotal"] = SumDur(l, FALSE)
                  /\ d["fracTimeOn"] = FDiv(SumDur(l, TRUE), SumDur(l, FALSE))

\* C20 as stated: a generate or a load leaves every distribution there was
\* with the parameters, step list and statistics it had.
C20_OthersUnchanged ==
    (Generated \/ Loaded) =>
        \A k \in DOMAIN last.prevDists :
            /\ dists[k] = last.prevDists[k]
            /\ dicts[dists[k].params] = last.prevDicts[dists[k].params]

\* --------------------------------------------------- claims about the GUI
\* C19 as stated: when load raises, the distribution held, its parameters,
\* steps and statistics, the unsaved flag and whether Start is enabled are
\* as they were before the load was attempted, and nothing parsed is kept.
C19_FailedLoadChangesNothing ==
    (Loaded /\ last.error # "none") =>
        /\ gui = last.prevGui
        /\ dists = last.prevDists
        /\ dicts = last.prevDicts

\* ------------------------------------------- further claims about generation
\* C21: every generated step has a duration >= 0, for every parameter record,
\* negative means, negative bounds and min > max included: the four bounds
\* are stored as >= 0 before sampling and every sample is saturated into them.
C21_NonNegativeDurations ==
    Generated =>
        /\ \A f \in {"minDurOn", "maxDurOn", "minDurOff", "maxDurOff"} : Stored[f] >= 0
        /\ \A i \in 1..Len(last.steps) : last.steps[i].dur >= 0
        /\ \A k \in DOMAIN dists : \A i \in 1..Len(dists[k].stepList) :
              dists[k].stepList[i].dur >= 0

\* a negative mean and a negative minimum were given for the off steps; the
\* stored minimum is 0 and an off step lasts 0 s, beside an on step that lasts
\* longer
C21_Witness ==
    /\ Generated
    /\ last.error = "none"
    /\ Given["avgDurOff"] < 0
    /\ Given["minDurOff"] < 0
    /\ Stored["minDurOff"] = 0
    /\ 0 \in OffDurs(last.steps)
    /\ \E x \in OnDurs(last.steps) : x > 0

Inverted(minDur, maxDur) == minDur > maxDur

\* C23: when a category's stored min exceeds its stored max, the clamp is
\* applied low-then-high, min(max(minDur, x), maxDur): every step of that
\* category lasts exactly maxDur, whatever was sampled.
C23_InvertedBounds ==
    Generated =>
        /\ Inverted(Stored["minDurOn"], Stored["maxDurOn"]) =>
              OnDurs(last.steps) \subseteq {Stored["maxDurOn"]}
        /\ Inverted(Stored["minDurOff"], Stored["maxDurOff"]) =>
              OffDurs(last.steps) \subseteq {Stored["maxDurOff"]}

\* on steps were sampled with a spread around 2 s between the bounds min 3 s
\* and max 1 s: all three last 1 s
C23_Witness ==
    /\ Generated
    /\ last.error = "none"
    /\ Given["minDurOn"] = 300
    /\ Given["maxDurOn"] = 100
    /\ Given["stdDurOn"] > 0
    /\ CountOn(last.steps) = 3
    /\ OnDurs(last.steps) = {100}

\* ------------------------------------------------ further claim about playback
\* C24 as stated: every read sequence[iStep], for the effect level and for the
\* next timer's duration, happens with 0 <= iStep < len(sequence): no read
\* raises IndexError, the index never reaches the length while it still
\* indexes the sequence, and an empty sequence is never indexed.
C24_IndexSafety ==
    /\ \A e \in errors : e.kind # "IndexError"
    /\ \A k \in TimerIds : pc[k] = "arm" => (0 <= iStep /\ iStep < Len(sequence))

\* -------------------------------------------- further claim about the GUI
\* C25 as stated: under any sequence of generate, load (succeeding or
\* failing), save, start and stop, the Start button is enabled only while
\* theDistribution holds a generated or loaded StepDistribution, and onStart
\* never runs without a step list to play.
C25_StartNeedsDistribution ==
    /\ gui.startEnabled => gui.theDistribution \in DOMAIN dists
    /\ last.op = "start" => last.error = "none"
====
